---- MODULE Spec2Model ----
(***************************************************************************)
(* Block filter index of lbrycrd (src/index/blockfilterindex.cpp): the     *)
(* SQLite table of filter records, the four lookup operations and the      *)
(* process-wide registry of index instances.                               *)
(***************************************************************************)
EXTENDS Integers, Sequences, FiniteSets, TLC

(***************************************************************************)
(* Bounds of the model.                                                    *)
(***************************************************************************)
\* Height of the tips of the two branches of the block tree.
MaxHeight == 2
\* The side branch leaves the main branch above height ForkHeight - 1.
ForkHeight == MaxHeight - 1
\* The memory of the process holds this many output elements; the push
\* after that throws std::bad_alloc.
MaxOut == MaxHeight + 2

(***************************************************************************)
(* Chain nodes (CBlockIndex).  A node is named by its block hash, a        *)
(* positive integer; nullptr is the pprev of the genesis node.             *)
(*   main branch : hashes 1 .. MaxHeight+1, heights 0 .. MaxHeight         *)
(*   side branch : hashes MaxHeight+2 .., heights ForkHeight .. MaxHeight  *)
(***************************************************************************)
nullptr == 0

MainBlocks == 1 .. (MaxHeight + 1)

SideBlocks == (MaxHeight + 2) .. (2 * MaxHeight + 2 - ForkHeight)

Blocks == MainBlocks \cup SideBlocks

nHeight(b) == IF b \in MainBlocks THEN b - 1 ELSE ForkHeight + (b - (MaxHeight + 2))

pprev(b) ==
    IF b = 1 THEN nullptr
    ELSE IF b = MaxHeight + 2 THEN ForkHeight
    ELSE b - 1

GetBlockHash(b) == b

RECURSIVE GetAncestor(_, _)
\* The ancestor of node b at height h (h <= nHeight(b)).
GetAncestor(b, h) == IF nHeight(b) = h THEN b ELSE GetAncestor(pprev(b), h)

(***************************************************************************)
(* Filter records.  The filter bytes and the filter hash of a block are    *)
(* computed from the block by the write path; distinct blocks get          *)
(* distinct values.                                                        *)
(***************************************************************************)
\* SQL NULL in the height column.
NullHeight == -1

\* The encoded filter of block b.
FilterOf(b) == 100 + b

\* The filter hash of block b.
FilterHashOf(b) == 200 + b

\* An empty byte vector: what a moved-from std::vector holds.
EmptyFilter == 0

\* A row of the table (height, blockHash, filterHash, filter).
Row(h, b) == [height |-> h, blockHash |-> b, filterHash |-> FilterHashOf(b),
              filter |-> FilterOf(b)]

\* BlockFilter(m_filter_type, hash, filter).
BlockFilter(hash, filter) == [blockHash |-> hash, filter |-> filter]

\* An element the caller left in the output vector before the call.
StaleFilter == BlockFilter(nullptr, EmptyFilter)

StaleHash == FilterHashOf(nullptr)

\* What an uninitialized element of a reserved vector can hold.
GarbageFilters ==
    {BlockFilter(b, f) : b \in {nullptr} \cup Blocks, f \in {EmptyFilter, FilterOf(1)}}

GarbageHashes == {0} \cup {FilterHashOf(b) : b \in Blocks}

VARIABLES
    table,          \* rows of the filter table of the instance
    pc,             \* "idle", "loop", "inner", "done", "crashed"
    op,             \* the operation the caller invoked
    start_height,   \* argument start_height
    stop_arg,       \* the stop_index the caller passed
    stop_index,     \* the local stop_index, walked backward by the loop
    temp,           \* height -> BlockFilter, from the bulk query
    filters_out,    \* output vector of LookupFilterRange
    hashes_out,     \* output vector of LookupFilterHashRange
    out_arg,        \* the output vector as the caller passed it in
    ret,            \* "none", "true", "false", "segv", "bad_alloc"
    filter_out,     \* out-parameter of LookupFilter
    header_out,     \* out-parameter of LookupFilterHeader
    queries,        \* SQL statements issued by the call so far
    g_filter_indexes, \* registry: filter type -> instance
    table_created,  \* the table exists in block_filter.sqlite
    mem_table,      \* rows of the private :memory: database of the instance
    reg_call,       \* the last registry call and what it returned
    last_structural \* per filter type, the last call that changed its entry

lookup_vars == <<pc, op, start_height, stop_arg, stop_index, temp, filters_out,
                 hashes_out, out_arg, ret, filter_out, header_out, queries>>

reg_vars == <<g_filter_indexes, table_created, mem_table, reg_call, last_structural>>

vars == <<table, lookup_vars, reg_vars>>

NoFilter == BlockFilter(nullptr, EmptyFilter)

NoTemp == [h \in {} |-> NoFilter]

LookupIdle ==
    /\ pc = "idle"
    /\ op = "none"
    /\ start_height = 0
    /\ stop_arg = nullptr
    /\ stop_index = nullptr
    /\ temp = NoTemp
    /\ filters_out = <<>>
    /\ hashes_out = <<>>
    /\ out_arg = <<>>
    /\ ret = "none"
    /\ filter_out = NoFilter
    /\ header_out = 0
    /\ queries = 0

(***************************************************************************)
(* Queries of the lookup operations.                                       *)
(***************************************************************************)
\* The argument checks without the comparison against the stop height.
ValidRangeNoUpperCheck(s, node) == ~(s < 0)

\* The argument checks at the head of both range functions.
ValidRange(s, node) == ~(s < 0) /\ ~(s > nHeight(node))

\* SELECT height, blockHash, filter ... WHERE height BETWEEN ? AND ?
BulkQuery(rows, s, node) ==
    {r \in rows : r.height # NullHeight /\ s <= r.height /\ r.height <= nHeight(node)}

\* The maps temp can be after the loop of temp.emplace: emplace keeps the
\* first row of a height, and SQL leaves the order of rows of equal height
\* open.
TempMaps(rows) ==
    LET Hs == {r.height : r \in rows}
        Fs == {BlockFilter(r.blockHash, r.filter) : r \in rows}
    IN  {f \in [Hs -> Fs] :
            \A h \in Hs : \E r \in rows :
                r.height = h /\ f[h] = BlockFilter(r.blockHash, r.filter)}

\* The fast path without the comparison of the block hashes.
FastPathHitAnyBlock(t, node) == nHeight(node) \in DOMAIN t

\* hit != temp.end() && hit->second.GetBlockHash() == stop_index->GetBlockHash()
FastPathHit(t, node) ==
    /\ nHeight(node) \in DOMAIN t
    /\ t[nHeight(node)].blockHash = GetBlockHash(node)

\* SELECT filter ... WHERE height IS NULL AND blockHash = ? LIMIT 1
InnerQuery(rows, node) ==
    {r \in rows : r.height = NullHeight /\ r.blockHash = GetBlockHash(node)}

\* SELECT filterHash ... WHERE (height = ? OR height IS NULL) AND blockHash = ? LIMIT 1
HashQuery(rows, node) ==
    {r \in rows : /\ (r.height = nHeight(node) \/ r.height = NullHeight)
                  /\ r.blockHash = GetBlockHash(node)}

\* return out.size() == stop_index->nHeight - start_height + 1;
\* The int on the right is converted to size_t: a negative value becomes
\* one no vector size reaches.
SizeMatches(out, node, s) ==
    LET n == nHeight(node) - s + 1
    IN  n >= 0 /\ Len(out) = n

FilterKind(o) == o \in {"LookupFilter", "LookupFilterRange"}

Wrapper(o) == o \in {"LookupFilter", "LookupFilterHeader"}

BoolStr(b) == IF b THEN "true" ELSE "false"

(***************************************************************************)
(* The lookup operations.                                                  *)
(***************************************************************************)
\* Entry of a range function up to the first evaluation of the loop
\* condition: the argument checks, the bulk query and temp.
Enter(o, s, node, out0) ==
    /\ pc = "idle"
    /\ op' = o
    /\ start_height' = s
    /\ stop_arg' = node
    /\ stop_index' = node
    /\ out_arg' = out0
    /\ filters_out' = IF FilterKind(o) THEN out0 ELSE <<>>
    /\ hashes_out' = IF FilterKind(o) THEN <<>> ELSE out0
    /\ IF ValidRange(s, node)
       THEN /\ pc' = "loop"
            /\ ret' = "none"
            /\ IF FilterKind(o)
               THEN /\ temp' \in TempMaps(BulkQuery(table, s, node))
                    /\ queries' = 1
               ELSE /\ temp' = NoTemp
                    /\ queries' = 0
       ELSE /\ pc' = "done"
            /\ ret' = "false"
            /\ temp' = NoTemp
            /\ queries' = 0
    /\ UNCHANGED <<table, filter_out, header_out, reg_vars>>

\* A call of LookupFilterRange(start_height, stop_index, filters_out).
LookupFilterRange(s, node, out0) ==
    /\ node \in Blocks
    /\ Enter("LookupFilterRange", s, node, out0)

\* A call of LookupFilterHashRange(start_height, stop_index, hashes_out).
LookupFilterHashRange(s, node, out0) ==
    /\ node \in Blocks
    /\ Enter("LookupFilterHashRange", s, node, out0)

\* LookupFilter(block_index, filter_out) up to the loop of the range
\* function it calls with a fresh vector.
LookupFilter(node) ==
    /\ node \in Blocks
    /\ Enter("LookupFilter", nHeight(node), node, <<>>)

\* LookupFilterHeader(block_index, header_out), likewise.
LookupFilterHeader(node) ==
    /\ node \in Blocks
    /\ Enter("LookupFilterHeader", nHeight(node), node, <<>>)

\* The loop condition holds for a node that exists.
InLoop ==
    /\ pc = "loop"
    /\ stop_index # nullptr
    /\ start_height <= nHeight(stop_index)

\* One iteration of the loop of LookupFilterRange that takes the fast path:
\* push_back(std::move(hit->second)); continue;
FilterRangeHit ==
    /\ InLoop
    /\ FilterKind(op)
    /\ FastPathHit(temp, stop_index)
    /\ Len(filters_out) < MaxOut
    /\ filters_out' = Append(filters_out, temp[nHeight(stop_index)])
    /\ temp' = [temp EXCEPT ![nHeight(stop_index)] = BlockFilter(@.blockHash, EmptyFilter)]
    /\ UNCHANGED <<table, pc, op, start_height, stop_arg, stop_index, hashes_out,
                   out_arg, ret, filter_out, header_out, queries, reg_vars>>

\* The push_back of the fast path when the memory is used up.
BadAlloc ==
    /\ InLoop
    /\ FilterKind(op)
    /\ FastPathHit(temp, stop_index)
    /\ Len(filters_out) >= MaxOut
    /\ pc' = "crashed"
    /\ ret' = "bad_alloc"
    /\ UNCHANGED <<table, op, start_height, stop_arg, stop_index, temp, filters_out,
                   hashes_out, out_arg, filter_out, header_out, queries, reg_vars>>

\* One iteration of the loop of LookupFilterRange that looks the block up
\* by hash and steps to the parent.
FilterRangeFallback ==
    /\ InLoop
    /\ FilterKind(op)
    /\ ~FastPathHit(temp, stop_index)
    /\ queries' = queries + 1
    /\ IF InnerQuery(table, stop_index) = {}
       THEN filters_out' = filters_out
       ELSE \E r \in InnerQuery(table, stop_index) :
                filters_out' = Append(filters_out,
                                      BlockFilter(GetBlockHash(stop_index), r.filter))
    /\ stop_index' = pprev(stop_index)
    /\ UNCHANGED <<table, pc, op, start_height, stop_arg, temp, hashes_out, out_arg,
                   ret, filter_out, header_out, reg_vars>>

\* One iteration of the loop of LookupFilterHashRange.
HashRangeStep ==
    /\ InLoop
    /\ ~FilterKind(op)
    /\ queries' = queries + 1
    /\ IF HashQuery(table, stop_index) = {}
       THEN hashes_out' = hashes_out
       ELSE \E r \in HashQuery(table, stop_index) :
                hashes_out' = Append(hashes_out, r.filterHash)
    /\ stop_index' = pprev(stop_index)
    /\ UNCHANGED <<table, pc, op, start_height, stop_arg, temp, filters_out, out_arg,
                   ret, filter_out, header_out, reg_vars>>

\* The loop condition fails and the range function returns its comparison.
RangeReturn ==
    /\ pc = "loop"
    /\ stop_index # nullptr
    /\ ~(start_height <= nHeight(stop_index))
    /\ ret' = BoolStr(SizeMatches(IF FilterKind(op) THEN filters_out ELSE hashes_out,
                                  stop_index, start_height))
    /\ pc' = IF Wrapper(op) THEN "inner" ELSE "done"
    /\ UNCHANGED <<table, op, start_height, stop_arg, stop_index, temp, filters_out,
                   hashes_out, out_arg, filter_out, header_out, queries, reg_vars>>

\* The loop condition reads stop_index->nHeight of the null pprev of the
\* genesis node: the process is killed, or the read yields some value that
\* ends the loop and decides the comparison either way.
NullDeref ==
    /\ pc = "loop"
    /\ stop_index = nullptr
    /\ \/ pc' = "crashed" /\ ret' = "segv"
       \/ /\ ret' \in {"true", "false"}
          /\ pc' = IF Wrapper(op) THEN "inner" ELSE "done"
    /\ UNCHANGED <<table, op, start_height, stop_arg, stop_index, temp, filters_out,
                   hashes_out, out_arg, filter_out, header_out, queries, reg_vars>>

\* LookupFilter after LookupFilterRange returned: filters[0] of an empty
\* vector is an element of reserved, uninitialized storage.
LookupFilterReturn ==
    /\ pc = "inner"
    /\ op = "LookupFilter"
    /\ IF ret = "false"
       THEN pc' = "done" /\ UNCHANGED <<ret, filter_out>>
       ELSE IF Len(filters_out) > 0
       THEN pc' = "done" /\ filter_out' = filters_out[1] /\ UNCHANGED ret
       ELSE \/ pc' = "done" /\ filter_out' \in GarbageFilters /\ UNCHANGED ret
            \/ pc' = "crashed" /\ ret' = "segv" /\ UNCHANGED filter_out
    /\ UNCHANGED <<table, op, start_height, stop_arg, stop_index, temp, filters_out,
                   hashes_out, out_arg, header_out, queries, reg_vars>>

\* LookupFilterHeader after LookupFilterHashRange returned.
LookupFilterHeaderReturn ==
    /\ pc = "inner"
    /\ op = "LookupFilterHeader"
    /\ IF ret = "false"
       THEN pc' = "done" /\ UNCHANGED <<ret, header_out>>
       ELSE IF Len(hashes_out) > 0
       THEN pc' = "done" /\ header_out' = hashes_out[1] /\ UNCHANGED ret
       ELSE \/ pc' = "done" /\ header_out' \in GarbageHashes /\ UNCHANGED ret
            \/ pc' = "crashed" /\ ret' = "segv" /\ UNCHANGED header_out
    /\ UNCHANGED <<table, op, start_height, stop_arg, stop_index, temp, filters_out,
                   hashes_out, out_arg, filter_out, queries, reg_vars>>

\* The caller takes the result; the locals of the call go out of scope.
Return ==
    /\ pc = "done"
    /\ pc' = "idle"
    /\ op' = "none"
    /\ start_height' = 0
    /\ stop_arg' = nullptr
    /\ stop_index' = nullptr
    /\ temp' = NoTemp
    /\ filters_out' = <<>>
    /\ hashes_out' = <<>>
    /\ out_arg' = <<>>
    /\ ret' = "none"
    /\ filter_out' = NoFilter
    /\ header_out' = 0
    /\ queries' = 0
    /\ UNCHANGED <<table, reg_vars>>

(***************************************************************************)
(* The write path of the index (the driver that connects and disconnects   *)
(* blocks).                                                                *)
(***************************************************************************)
\* An insert that adds the height-keyed row whatever the table holds.
InsertRowAlways(rows, b) == rows \cup {Row(nHeight(b), b)}

\* An insert that replaces the record of the block hash by a height-keyed row.
InsertRowReplaces(rows, b) ==
    {r \in rows : r.blockHash # b} \cup {Row(nHeight(b), b)}

\* A filter record is created when its block is connected.  Inserting a
\* block hash that has a record adds no row.
InsertRow(rows, b) ==
    IF \E r \in rows : r.blockHash = b THEN rows ELSE rows \cup {Row(nHeight(b), b)}

\* UPDATE ... SET height = NULL WHERE height BETWEEN lo AND hi
RewindRows(rows, lo, hi) ==
    {IF r.height # NullHeight /\ lo <= r.height /\ r.height <= hi
     THEN [r EXCEPT !.height = NullHeight] ELSE r : r \in rows}

Insert(b) ==
    /\ pc = "idle"
    /\ table' = InsertRow(table, b)
    /\ table' # table
    /\ UNCHANGED <<lookup_vars, reg_vars>>

Rewind(lo, hi) ==
    /\ pc = "idle"
    /\ table' = RewindRows(table, lo, hi)
    /\ table' # table
    /\ UNCHANGED <<lookup_vars, reg_vars>>

(***************************************************************************)
(* Specification of the lookups over every table the write path builds.    *)
(***************************************************************************)

(***************************************************************************)
(* The registry g_filter_indexes and the construction of an instance.      *)
(***************************************************************************)
\* BlockFilterType::BASIC, the one filter type with a name.
BASIC == 0

\* A value of the enum type that names no filter type.
UnknownType == 255

FilterTypes == {BASIC, UnknownType}

\* The table name of a filter type; empty for an unrecognized one.
BlockFilterTypeNameFallback(ft) == "basic"

BlockFilterTypeName(ft) == IF ft = BASIC THEN "basic" ELSE ""

\* An index instance: its database is :memory: or the file
\* block_filter.sqlite; the constructor ends with BEGIN.
Instance(f_memory) == [f_memory |-> f_memory, in_transaction |-> TRUE]

Call(o, ft, r, seen) == [op |-> o, type |-> ft, ret |-> r, visited |-> seen]

\* A call of InitBlockFilterIndex with its arguments.
InitCall(ft, r, f_memory, f_wipe) ==
    [op |-> "InitBlockFilterIndex", type |-> ft, ret |-> r, visited |-> {},
     f_memory |-> f_memory, f_wipe |-> f_wipe]

\* A constructor that never runs DELETE FROM.
ConstructorRowsKeeps(rows, f_wipe) == rows

\* The rows of a table after the constructor ran on its database:
\* CREATE TABLE IF NOT EXISTS keeps them, DELETE FROM removes them.
ConstructorRows(rows, f_wipe) == IF f_wipe THEN {} ELSE rows

\* std::map::emplace builds the element from the arguments before it looks
\* for the key, or after: the standard allows both.
EmplaceConstructsFirst == {TRUE, FALSE}

\* result.second of emplace.
EmplaceInserted(reg, ft) == ft \notin DOMAIN reg

\* An erase that leaves the entry in the map.
EraseKeepsEntry(reg, ft) == reg

\* The map after erase(ft).
Erase(reg, ft) == [t \in (DOMAIN reg) \ {ft} |-> reg[t]]

\* The count erase(ft) returns, converted to bool.
EraseResult(reg, ft) == BoolStr(Cardinality((DOMAIN reg) \cap {ft}) # 0)

\* it != end() ? &it->second : nullptr
FindResult(reg, ft) == IF ft \in DOMAIN reg THEN "instance" ELSE "nullptr"

InitBlockFilterIndex(ft, f_memory, f_wipe) ==
    /\ pc = "idle"
    /\ IF ~EmplaceInserted(g_filter_indexes, ft)
       THEN \* the key exists: a constructed element is destroyed again
            /\ \E constructs \in EmplaceConstructsFirst :
                   IF constructs /\ ~f_memory
                   THEN /\ table' = ConstructorRows(table, f_wipe)
                        /\ table_created' = TRUE
                   ELSE UNCHANGED <<table, table_created>>
            /\ reg_call' = InitCall(ft, "false", f_memory, f_wipe)
            /\ UNCHANGED <<g_filter_indexes, mem_table, last_structural>>
       ELSE IF BlockFilterTypeName(ft) = ""
       THEN \* throw std::invalid_argument("unknown filter_type")
            /\ reg_call' = InitCall(ft, "invalid_argument", f_memory, f_wipe)
            /\ UNCHANGED <<table, table_created, g_filter_indexes, mem_table,
                           last_structural>>
       ELSE /\ g_filter_indexes' = (ft :> Instance(f_memory)) @@ g_filter_indexes
            /\ IF f_memory
               THEN /\ mem_table' = ConstructorRows({}, f_wipe)
                    /\ UNCHANGED <<table, table_created>>
               ELSE /\ table' = ConstructorRows(table, f_wipe)
                    /\ table_created' = TRUE
                    /\ UNCHANGED mem_table
            /\ reg_call' = InitCall(ft, "true", f_memory, f_wipe)
            /\ last_structural' = [last_structural EXCEPT ![ft] = "Init"]
    /\ UNCHANGED lookup_vars

DestroyBlockFilterIndex(ft) ==
    /\ pc = "idle"
    /\ g_filter_indexes' = Erase(g_filter_indexes, ft)
    /\ reg_call' = Call("DestroyBlockFilterIndex", ft,
                        EraseResult(g_filter_indexes, ft), {})
    /\ mem_table' = IF ft \in DOMAIN g_filter_indexes THEN {} ELSE mem_table
    /\ last_structural' = [last_structural EXCEPT ![ft] = "Destroy"]
    /\ UNCHANGED <<table, table_created, lookup_vars>>

DestroyAllBlockFilterIndexes ==
    /\ pc = "idle"
    /\ g_filter_indexes' = <<>>
    /\ reg_call' = Call("DestroyAllBlockFilterIndexes", BASIC, "void", {})
    /\ mem_table' = {}
    /\ last_structural' = [ft \in FilterTypes |-> "DestroyAll"]
    /\ UNCHANGED <<table, table_created, lookup_vars>>

\* A lookup through operator[], which adds an entry for an absent key.
GetBlockFilterIndexSubscript(ft) ==
    /\ pc = "idle"
    /\ g_filter_indexes' = IF ft \in DOMAIN g_filter_indexes
                           THEN g_filter_indexes
                           ELSE (ft :> Instance(FALSE)) @@ g_filter_indexes
    /\ reg_call' = Call("GetBlockFilterIndex", ft, "instance", {})
    /\ UNCHANGED <<table, table_created, mem_table, last_structural, lookup_vars>>

GetBlockFilterIndex(ft) ==
    /\ pc = "idle"
    /\ reg_call' = Call("GetBlockFilterIndex", ft, FindResult(g_filter_indexes, ft), {})
    /\ UNCHANGED <<table, table_created, g_filter_indexes, mem_table, last_structural,
                   lookup_vars>>

\* fn is applied to every entry of the map.
ForEachBlockFilterIndex ==
    /\ pc = "idle"
    /\ reg_call' = Call("ForEachBlockFilterIndex", BASIC, "void", DOMAIN g_filter_indexes)
    /\ UNCHANGED <<table, table_created, g_filter_indexes, mem_table, last_structural,
                   lookup_vars>>

\* The driver inserts the record of block b through the registered
\* instance, into the database that instance opened.
IndexWrite(b) ==
    /\ pc = "idle"
    /\ BASIC \in DOMAIN g_filter_indexes
    /\ IF g_filter_indexes[BASIC].f_memory
       THEN mem_table' = InsertRow(mem_table, b) /\ UNCHANGED table
       ELSE table' = InsertRow(table, b) /\ UNCHANGED mem_table
    /\ reg_call' = Call("write", BASIC, "void", {})
    /\ UNCHANGED <<table_created, g_filter_indexes, last_structural, lookup_vars>>

Heights == 0 .. MaxHeight

\* The state after InitBlockFilterIndex(BASIC, n, false, true): one instance
\* on an empty table of the database file, no call in progress.
Init ==
    /\ table = {}
    /\ LookupIdle
    /\ g_filter_indexes = (BASIC :> Instance(FALSE))
    /\ table_created = TRUE
    /\ mem_table = {}
    /\ reg_call = InitCall(BASIC, "true", FALSE, FALSE)
    /\ last_structural = [ft \in FilterTypes |-> IF ft = BASIC THEN "Init" ELSE "none"]

Next ==
    \/ \E b \in Blocks : Insert(b)
    \/ \E lo \in Heights : \E hi \in lo .. MaxHeight : Rewind(lo, hi)
    \/ \E node \in Blocks : \E s \in (-1) .. (MaxHeight + 1) :
           \E out0 \in {<<>>, <<StaleFilter>>} : LookupFilterRange(s, node, out0)
    \/ \E node \in Blocks : \E s \in (-1) .. (MaxHeight + 1) :
           \E out0 \in {<<>>, <<StaleHash>>} : LookupFilterHashRange(s, node, out0)
    \/ \E node \in Blocks : LookupFilter(node)
    \/ \E node \in Blocks : LookupFilterHeader(node)
    \/ FilterRangeHit
    \/ BadAlloc
    \/ FilterRangeFallback
    \/ HashRangeStep
    \/ RangeReturn
    \/ NullDeref
    \/ LookupFilterReturn
    \/ LookupFilterHeaderReturn
    \/ Return

Spec == Init /\ [][Next]_vars

(***************************************************************************)
(* Specification of the registry: the process starts with no instance and  *)
(* no table.                                                               *)
(***************************************************************************)
\* The blocks the driver indexes in the registry specification.
RegBlocks == {b \in MainBlocks : nHeight(b) < MaxHeight}

RegInit ==
    /\ table = {}
    /\ LookupIdle
    /\ g_filter_indexes = <<>>
    /\ table_created = FALSE
    /\ mem_table = {}
    /\ reg_call = Call("none", BASIC, "void", {})
    /\ last_structural = [ft \in FilterTypes |-> "none"]

RegNext ==
    \/ \E ft \in FilterTypes : \E f_memory \in BOOLEAN : \E f_wipe \in BOOLEAN :
           InitBlockFilterIndex(ft, f_memory, f_wipe)
    \/ \E ft \in FilterTypes : DestroyBlockFilterIndex(ft)
    \/ DestroyAllBlockFilterIndexes
    \/ \E ft \in FilterTypes : GetBlockFilterIndex(ft)
    \/ ForEachBlockFilterIndex
    \/ \E b \in RegBlocks : IndexWrite(b)

RegSpec == RegInit /\ [][RegNext]_vars

\* LookupFilterHashRange as a function of the table and its arguments: the
\* loop of lines 140-151 and the comparison of line 152, from the output
\* accumulated so far.  The rows the query can return for one block hash
\* carry the same filterHash.
RECURSIVE HashRangeWalk(_, _, _, _)
HashRangeWalk(rows, s, node, out) ==
    IF node = nullptr
    THEN [ret |-> "segv", out |-> out]
    ELSE IF s <= nHeight(node)
    THEN HashRangeWalk(rows, s, pprev(node),
                       IF HashQuery(rows, node) = {}
                       THEN out
                       ELSE Append(out, (CHOOSE r \in HashQuery(rows, node) : TRUE).filterHash))
    ELSE [ret |-> BoolStr(SizeMatches(out, node, s)), out |-> out]

(***************************************************************************)
(* Specification of the write path alone: every call of the driver is      *)
(* recorded in reg_call, also one that leaves the table as it is.          *)
(***************************************************************************)
WriteCall(o, x, y) ==
    [op |-> o, type |-> BASIC, ret |-> "void", visited |-> {}, arg1 |-> x, arg2 |-> y]

\* The driver inserts the record of block b.
RecordInsert(b) ==
    /\ pc = "idle"
    /\ table' = InsertRow(table, b)
    /\ reg_call' = WriteCall("insert", b, 0)
    /\ UNCHANGED <<lookup_vars, g_filter_indexes, table_created, mem_table,
                   last_structural>>

\* The driver displaces the records of heights lo .. hi.
RecordRewind(lo, hi) ==
    /\ pc = "idle"
    /\ table' = RewindRows(table, lo, hi)
    /\ reg_call' = WriteCall("rewind", lo, hi)
    /\ UNCHANGED <<lookup_vars, g_filter_indexes, table_created, mem_table,
                   last_structural>>

\* The instance is destroyed and constructed again on the database file,
\* with or without f_wipe.
Reopen(f_wipe) ==
    /\ pc = "idle"
    /\ table' = ConstructorRows(table, f_wipe)
    /\ reg_call' = WriteCall(IF f_wipe THEN "reopen_wipe" ELSE "reopen_keep", 0, 0)
    /\ UNCHANGED <<lookup_vars, g_filter_indexes, table_created, mem_table,
                   last_structural>>

WriteNext ==
    \/ \E b \in Blocks : RecordInsert(b)
    \/ \E lo \in Heights : \E hi \in lo .. MaxHeight : RecordRewind(lo, hi)
    \/ \E f_wipe \in BOOLEAN : Reopen(f_wipe)

WriteSpec == Init /\ [][WriteNext]_vars


(***************************************************************************)
(* Specification of the read operations: the lookups of an instance and    *)
(* the two registry reads, between writes of the driver.                   *)
(***************************************************************************)
ReadNext ==
    \/ \E b \in Blocks : Insert(b)
    \/ \E lo \in Heights : \E hi \in lo .. MaxHeight : Rewind(lo, hi)
    \/ \E node \in Blocks : \E s \in Heights : LookupFilterRange(s, node, <<>>)
    \/ \E node \in Blocks : \E s \in Heights : LookupFilterHashRange(s, node, <<>>)
    \/ \E node \in Blocks : LookupFilter(node)
    \/ \E node \in Blocks : LookupFilterHeader(node)
    \/ FilterRangeHit
    \/ BadAlloc
    \/ FilterRangeFallback
    \/ HashRangeStep
    \/ RangeReturn
    \/ NullDeref
    \/ LookupFilterReturn
    \/ LookupFilterHeaderReturn
    \/ Return
    \/ \E ft \in FilterTypes : GetBlockFilterIndex(ft)
    \/ ForEachBlockFilterIndex

ReadSpec == Init /\ [][ReadNext]_vars

(***************************************************************************)
(* Vocabulary of the properties.                                           *)
(***************************************************************************)
\* The table holds a record of block b: keyed by its height, or displaced.
HasRecord(rows, b) ==
    \E r \in rows : r.blockHash = b /\ (r.height = nHeight(b) \/ r.height = NullHeight)

\* The heights a valid call asks about.
Window == start_height .. nHeight(stop_arg)

\* The call in progress or finished is a range call with valid arguments.
ValidCall(o) == op = o /\ 0 <= start_height /\ start_height <= nHeight(stop_arg)

\* The call is over: it returned, or the process died in it.
Finished == pc \in {"done", "crashed"}

\* The backward walk has not left the chain: stop_index is a node.  The
\* properties of what a call returns are stated for such calls, so that
\* none of them rests on what a read through the null pprev of the genesis
\* node yields.
OnChain == stop_index # nullptr

\* Every ancestor of the stop node in the window has a record.
AllPresent == \A h \in Window : HasRecord(table, GetAncestor(stop_arg, h))

\* The records the call added behind what the caller passed in.
Added(out) == SubSeq(out, Len(out_arg) + 1, Len(out))

\* The number of elements of sequence q that satisfy Test.
Count(q, Test(_)) == Cardinality({i \in 1 .. Len(q) : Test(q[i])})

\* The stored record of block b as the lookup returns it.
RecordOf(b) == BlockFilter(b, FilterOf(b))

\* C1: for every chain node tip and height h in 0 .. tip.height, when every
\* ancestor of tip in h .. tip.height has a record, LookupFilterRange(h, tip)
\* reports success and its output holds exactly tip.height - h + 1 records,
\* one for each height of the window.
C1_RangeComplete ==
    (Finished /\ OnChain /\ ValidCall("LookupFilterRange") /\ out_arg = <<>> /\ AllPresent)
        => /\ ret = "true"
           /\ Len(filters_out) = nHeight(stop_arg) - start_height + 1
           /\ \A h \in Window :
                  LET a == GetAncestor(stop_arg, h)
                  IN  Count(filters_out, LAMBDA f : f = RecordOf(a)) = 1

\* C2: reorg safety.  With X displaced (null height) and a different block Y
\* active at the same height h, a LookupFilterRange against a tip whose
\* ancestor at h is X, or is Y, over a window whose blocks all have a
\* record, succeeds and returns the record of that ancestor for height h.
C2_ReorgSafety ==
    (Finished /\ OnChain /\ ValidCall("LookupFilterRange") /\ out_arg = <<>> /\ AllPresent)
        => \A h \in Window : \A other \in Blocks :
               LET a == GetAncestor(stop_arg, h)
               IN  ( /\ other # a
                     /\ nHeight(other) = h
                     /\ \/ Row(NullHeight, a) \in table /\ Row(h, other) \in table
                        \/ Row(h, a) \in table /\ Row(NullHeight, other) \in table )
                   => (ret = "true" /\ Count(filters_out, LAMBDA f : f = RecordOf(a)) = 1)

\* C3: every range lookup terminates within stopNode.height - startHeight + 1
\* ancestor steps: each iteration of the loop, the one that accepts a
\* height-keyed hit included, moves stop_index on to the parent node.
C3_EachIterationStepsToParent ==
    [][(pc = "loop" /\ pc' = "loop") => stop_index' = pprev(stop_index)]_vars

\* C4: every record a range lookup puts in its output belongs to an ancestor
\* of stopNode inside the window: its block hash (its filter hash, in the
\* hash variant) is that of the ancestor at some height of the window, also
\* when the table holds a height-keyed row of another block at that height.
C4_RecordsBelongToAncestors ==
    /\ (ValidCall("LookupFilterRange") \/ ValidCall("LookupFilter"))
           => \A i \in 1 .. Len(Added(filters_out)) : \E h \in Window :
                  Added(filters_out)[i].blockHash = GetBlockHash(GetAncestor(stop_arg, h))
    /\ (ValidCall("LookupFilterHashRange") \/ ValidCall("LookupFilterHeader"))
           => \A i \in 1 .. Len(Added(hashes_out)) : \E h \in Window :
                  Added(hashes_out)[i] = FilterHashOf(GetAncestor(stop_arg, h))

\* A finished LookupFilterRange whose output holds the record of an ancestor
\* that it fetched by hash because the height-keyed row at that height
\* belongs to another block.
C4_Witness ==
    /\ pc = "done"
    /\ ValidCall("LookupFilterRange")
    /\ \E h \in Window :
           LET a == GetAncestor(stop_arg, h)
           IN  /\ h \in DOMAIN temp
               /\ temp[h].blockHash # a
               /\ \E i \in 1 .. Len(filters_out) : filters_out[i] = RecordOf(a)

\* C5: a range lookup never reports success on an incomplete result: when
\* some height of the window has no record of the ancestor (neither
\* height-keyed nor displaced) both range functions report failure, and when
\* either reports success its output holds
\* stopNode.height - startHeight + 1 elements, stopNode being the node the
\* caller passed in.
C5_NoSuccessOnIncomplete ==
    \A o \in {"LookupFilterRange", "LookupFilterHashRange"} :
        (pc = "done" /\ OnChain /\ ValidCall(o) /\ out_arg = <<>>)
            => /\ ~AllPresent => ret = "false"
               /\ ret = "true"
                    => Len(IF FilterKind(o) THEN filters_out ELSE hashes_out)
                         = nHeight(stop_arg) - start_height + 1

\* C6: LookupFilter(node) returns success exactly when the table holds a
\* record of node's block, and on success returns that record.
C6_LookupFilterExact ==
    (Finished /\ OnChain /\ op = "LookupFilter")
        => /\ (ret = "true") <=> HasRecord(table, stop_arg)
           /\ (ret = "true") => filter_out = RecordOf(stop_arg)

\* C7: LookupFilterHeader(node) returns the stored filterHash of node's block
\* when the table holds a record of it and signals not-found otherwise.
C7_LookupFilterHeaderExact ==
    (Finished /\ OnChain /\ op = "LookupFilterHeader")
        => /\ (ret = "true") <=> HasRecord(table, stop_arg)
           /\ (ret = "true") => header_out = FilterHashOf(stop_arg)

\* A range call whose start height is negative or above the stop height.
InvalidCall ==
    /\ op \in {"LookupFilterRange", "LookupFilterHashRange"}
    /\ (start_height < 0 \/ start_height > nHeight(stop_arg))

\* C8: LookupFilterRange and LookupFilterHashRange called with
\* startHeight < 0 or startHeight > stopNode.height fail before any query is
\* issued and do no partial work: the output sequence is as the caller
\* passed it, and the call leaves the table as it was.
C8_InvalidRangeNoWork ==
    /\ [](InvalidCall
            => /\ pc = "done"
               /\ ret = "false"
               /\ queries = 0
               /\ temp = NoTemp
               /\ filters_out = (IF FilterKind(op) THEN out_arg ELSE <<>>)
               /\ hashes_out = (IF FilterKind(op) THEN <<>> ELSE out_arg))
    /\ [][(pc = "idle" /\ pc' # "idle") => table' = table]_vars

\* An invalid call that returned, made with a non-empty output vector
\* against a table that holds rows.
C8_Witness ==
    /\ InvalidCall
    /\ pc = "done"
    /\ start_height > nHeight(stop_arg)
    /\ out_arg # <<>>
    /\ table # {}

\* The rows of the table of the instance registered for ft, given the rows
\* of the private database and of the database file.
InstanceRows(reg, ft, mem, disk) == IF reg[ft].f_memory THEN mem ELSE disk

\* C9: InitBlockFilterIndex for a filter type that has an instance returns
\* false and is a no-op: the registry is unchanged and the table of the
\* existing instance keeps its rows, also with f_wipe set.
C9_DuplicateRegisterIsNoOp ==
    [][(reg_call'.op = "InitBlockFilterIndex" /\ reg_call'.type \in DOMAIN g_filter_indexes)
         => /\ reg_call'.ret = "false"
            /\ g_filter_indexes' = g_filter_indexes
            /\ InstanceRows(g_filter_indexes, reg_call'.type, mem_table', table')
                 = InstanceRows(g_filter_indexes, reg_call'.type, mem_table, table)]_vars

\* C10: registry lifecycle.  GetBlockFilterIndex(d) finds an instance exactly
\* when the last call that changed d's entry was a successful
\* InitBlockFilterIndex(d); DestroyBlockFilterIndex(d) returns true exactly
\* when d was registered, and d is absent afterwards; after
\* DestroyAllBlockFilterIndexes every filter type is absent, and
\* InitBlockFilterIndex of an absent, recognized filter type returns true.
C10_RegistryLifecycle ==
    /\ [](\A ft \in FilterTypes :
            (ft \in DOMAIN g_filter_indexes) <=> (last_structural[ft] = "Init"))
    /\ [](reg_call.op = "GetBlockFilterIndex"
            => ((reg_call.ret = "instance") <=> (last_structural[reg_call.type] = "Init")))
    /\ [][reg_call'.op = "DestroyBlockFilterIndex"
            => /\ (reg_call'.ret = "true") <=> (reg_call'.type \in DOMAIN g_filter_indexes)
               /\ reg_call'.type \notin DOMAIN g_filter_indexes']_vars
    /\ [][reg_call'.op = "DestroyAllBlockFilterIndexes"
            => DOMAIN g_filter_indexes' = {}]_vars
    /\ [][( /\ reg_call'.op = "InitBlockFilterIndex"
            /\ reg_call'.type \notin DOMAIN g_filter_indexes
            /\ BlockFilterTypeName(reg_call'.type) # "" )
            => reg_call'.ret = "true" /\ reg_call'.type \in DOMAIN g_filter_indexes']_vars

\* A filter type registered again after its instance was destroyed: the
\* table of the database file still holds the rows the first instance wrote.
C10_Witness ==
    /\ reg_call.op = "InitBlockFilterIndex"
    /\ reg_call.type = BASIC
    /\ reg_call.ret = "true"
    /\ BASIC \in DOMAIN g_filter_indexes
    /\ ~g_filter_indexes[BASIC].f_memory
    /\ table # {}

\* C11: across the whole table and after any sequence of insert and displace
\* operations there is at most one record of a block hash: never a
\* height-keyed row and a null-height row, and never two rows of equal key,
\* of the same hash.
C11_OneRecordPerHash ==
    \A r1 \in table : \A r2 \in table : r1.blockHash = r2.blockHash => r1 = r2

\* The driver inserted a block whose record is displaced, while another
\* block is active at that height: the table holds the displaced row alone
\* for that hash.
C11_Witness ==
    /\ reg_call.op = "insert"
    /\ Row(NullHeight, reg_call.arg1) \in table
    /\ \E r \in table : r.height = nHeight(reg_call.arg1) /\ r.blockHash # reg_call.arg1

\* C12: a record only moves from active to displaced.  No write makes a null
\* height non-null again, inserting a block hash that has a record leaves
\* the table as it is, a displacement keeps blockHash, filterHash and filter,
\* and a record leaves the table only by a full wipe.
C12_ActiveToDisplacedOnly ==
    [][ /\ reg_call'.op # "reopen_wipe"
            => \A r \in table : \E r2 \in table' :
                   /\ r2.blockHash = r.blockHash
                   /\ r2.filterHash = r.filterHash
                   /\ r2.filter = r.filter
                   /\ r2.height \in {r.height, NullHeight}
                   /\ r2.height # r.height => reg_call'.op = "rewind"
        /\ (reg_call'.op = "insert" /\ \E r \in table : r.blockHash = reg_call'.arg1)
            => table' = table ]_vars

\* A displacement just turned an active record into a displaced one while
\* an older displaced record stayed in the table.
C12_Witness ==
    /\ reg_call.op = "rewind"
    /\ \E r \in table :
           /\ r.height = NullHeight
           /\ nHeight(r.blockHash) \in reg_call.arg1 .. reg_call.arg2
    /\ \E r \in table :
           /\ r.height = NullHeight
           /\ nHeight(r.blockHash) \notin reg_call.arg1 .. reg_call.arg2

\* C13: a construction with f_wipe leaves the table of the instance empty; a
\* construction without it creates the table if it is absent and keeps every
\* row stored in the database file; in both cases the instance holds an open
\* write transaction when the constructor returns, and the other database is
\* left alone.
C13_ConstructorPostcondition ==
    [][(reg_call'.op = "InitBlockFilterIndex" /\ reg_call'.ret = "true")
         => /\ reg_call'.type \in DOMAIN g_filter_indexes'
            /\ g_filter_indexes'[reg_call'.type].in_transaction
            /\ g_filter_indexes'[reg_call'.type].f_memory = reg_call'.f_memory
            /\ reg_call'.f_wipe
                 => InstanceRows(g_filter_indexes', reg_call'.type, mem_table', table') = {}
            /\ IF reg_call'.f_memory
               THEN /\ mem_table' = {}
                    /\ table' = table
                    /\ table_created' = table_created
               ELSE /\ table_created'
                    /\ ~reg_call'.f_wipe => table' = table
                    /\ mem_table' = mem_table]_vars

\* An instance constructed without f_wipe on a database file that held rows:
\* the rows are there and the transaction is open.
C13_Witness ==
    /\ reg_call.op = "InitBlockFilterIndex"
    /\ reg_call.ret = "true"
    /\ ~reg_call.f_wipe
    /\ ~reg_call.f_memory
    /\ g_filter_indexes[reg_call.type].in_transaction
    /\ Cardinality(table) = Cardinality(RegBlocks)

\* C14: InitBlockFilterIndex with an unrecognized filter type fails with
\* invalid_argument; the registry has no entry for that filter type and is
\* as before, and no table is created or wiped.
C14_UnknownTypeFails ==
    [][(reg_call'.op = "InitBlockFilterIndex" /\ reg_call'.type = UnknownType)
         => /\ reg_call'.ret = "invalid_argument"
            /\ UnknownType \notin DOMAIN g_filter_indexes'
            /\ g_filter_indexes' = g_filter_indexes
            /\ table' = table
            /\ table_created' = table_created
            /\ mem_table' = mem_table]_vars

\* An unrecognized filter type was refused with f_wipe set while the database
\* file held rows and BASIC was registered.
C14_Witness ==
    /\ reg_call.op = "InitBlockFilterIndex"
    /\ reg_call.type = UnknownType
    /\ reg_call.ret = "invalid_argument"
    /\ reg_call.f_wipe
    /\ ~reg_call.f_memory
    /\ table # {}
    /\ BASIC \in DOMAIN g_filter_indexes

\* C15: LookupFilterRange and LookupFilterHashRange return their results
\* indexed by ascending height: when a call has returned an element for
\* every height of its window, the element at position i is the record (or
\* the filter hash) of the stop node's ancestor at height start_height + i.
C15_AscendingByHeight ==
    \A o \in {"LookupFilterRange", "LookupFilterHashRange"} :
        ( /\ pc = "done" /\ OnChain /\ ValidCall(o) /\ out_arg = <<>>
          /\ Len(IF FilterKind(o) THEN filters_out ELSE hashes_out)
               = nHeight(stop_arg) - start_height + 1 )
            => \A i \in 0 .. (nHeight(stop_arg) - start_height) :
                   IF FilterKind(o)
                   THEN filters_out[i + 1]
                          = RecordOf(GetAncestor(stop_arg, start_height + i))
                   ELSE hashes_out[i + 1]
                          = FilterHashOf(GetAncestor(stop_arg, start_height + i))

\* C16: the backward walk of a range lookup never steps past the chain
\* root: in every valid call, also with start_height = 0, the node whose
\* nHeight the loop condition and the final comparison read is the stop node
\* or one of its ancestors, never the null pprev of the genesis node.
C16_WalkStaysOnChain ==
    \A o \in {"LookupFilterRange", "LookupFilterHashRange"} :
        (pc = "loop" /\ ValidCall(o)) => stop_index # nullptr

\* The stepwise LookupFilterHashRange and HashRangeWalk give the same result.
HashRangeWalkAgrees ==
    (pc = "done" /\ OnChain /\ ValidCall("LookupFilterHashRange") /\ out_arg = <<>>)
        => LET h == HashRangeWalk(table, start_height, stop_arg, <<>>)
           IN  ret = h.ret /\ hashes_out = h.out

\* C17: LookupFilterHashRange is the hash-only variant of LookupFilterRange:
\* on the same table and the same (start_height, stop node) the two succeed
\* or fail together, return the same number of elements, and the i-th hash
\* is the filterHash of the row whose filter is the i-th record.
C17_HashRangeIsHashOnlyVariant ==
    (Finished /\ OnChain /\ ValidCall("LookupFilterRange") /\ out_arg = <<>>)
        => LET h == HashRangeWalk(table, start_height, stop_arg, <<>>)
           IN  /\ ret = h.ret
               /\ Len(filters_out) = Len(h.out)
               /\ \A i \in 1 .. Len(h.out) :
                      \E r \in table : /\ r.blockHash = filters_out[i].blockHash
                                       /\ r.filter = filters_out[i].filter
                                       /\ r.filterHash = h.out[i]

====
